---- MODULE Spec2Model ----
(***************************************************************************)
(* The Streamlit script app.py as a state machine.  One step of the model  *)
(* is one run of main(): Streamlit re-executes the whole script once per   *)
(* widget interaction.  The state is st.session_state, the value held by   *)
(* the file_uploader widget, and a record of what the latest run did (the  *)
(* completion calls it made, the chat turns it rendered, the session       *)
(* fields its results view read).                                          *)
(*                                                                         *)
(* A text is a sequence of lines (strings); <<>> is the empty string.  A   *)
(* Python value that may be None is a record [none, lines].                *)
(***************************************************************************)
EXTENDS Integers, Sequences, FiniteSets, TLC

VARIABLES session_state, uploaded_file, run, summary_source

vars == <<session_state, uploaded_file, run, summary_source>>

\* Largest number of chat questions asked on one analysis.
MaxChats == 2

-----------------------------------------------------------------------------
(* Python values *)

None == [none |-> TRUE, lines |-> <<>>]

Str(l) == [none |-> FALSE, lines |-> l]

\* Python truthiness of an optional string: None and "" are falsy.
Truthy(v) == ~v.none /\ v.lines # <<>>

\* a + b on strings: the last line of a and the first line of b become one line.
Concat(a, b) ==
  IF a = <<>> THEN b
  ELSE IF b = <<>> THEN a
  ELSE SubSeq(a, 1, Len(a) - 1) \o <<a[Len(a)] \o b[1]>> \o Tail(b)

\* str(v) as an f-string replacement field renders it: None becomes 'None'.
Format(v) == IF v.none THEN <<"None">> ELSE v.lines

\* The lines  ---\n{v}\n---  of a prompt template: an empty string leaves one
\* empty line between the two rules.
Interpolate(v) == IF Format(v) = <<>> THEN <<"">> ELSE Format(v)

\* Lines made of blanks only.
WhitespaceOnly == {" ", "  "}

\* textwrap.dedent on a prompt: the rule line '---' starts in column 0, so the
\* common margin is empty and no indentation is removed; what is left of dedent
\* is that every whitespace-only line is replaced by an empty line.
dedent(text) ==
  [i \in DOMAIN text |-> IF text[i] \in WhitespaceOnly THEN "" ELSE text[i]]

-----------------------------------------------------------------------------
(* Uploaded files *)

NoFile == [present |-> FALSE, corrupt |-> FALSE, pages |-> <<>>]

Pdf(pages) == [present |-> TRUE, corrupt |-> FALSE, pages |-> pages]

\* A file pdfplumber cannot open or read.
CorruptPdf == [present |-> TRUE, corrupt |-> TRUE, pages |-> <<>>]

\* A scanned document: extract_text() gives None or '' on every page.
ImagePdf == Pdf(<<None, Str(<<>>)>>)

PdfA == Pdf(<<Str(<<"a">>)>>)

\* Three pages, the middle one without text; the text has a blank-only line.
PdfB == Pdf(<<Str(<<"b", " ">>), None, Str(<<"", "c">>)>>)

Files == {CorruptPdf, ImagePdf, PdfA, PdfB}

\* "".join(page.extract_text() for page in pdf.pages if page.extract_text())
RECURSIVE JoinPages(_)
JoinPages(pages) ==
  IF pages = <<>> THEN <<>>
  ELSE IF Truthy(Head(pages))
       THEN Concat(Head(pages).lines, JoinPages(Tail(pages)))
       ELSE JoinPages(Tail(pages))

extract_text_from_pdf(file) ==
  IF ~file.present THEN None
  ELSE IF file.corrupt THEN None
  ELSE Str(JoinPages(file.pages))

-----------------------------------------------------------------------------
(* The completion service *)

Replies == {<<"r1">>}

Errors == {"quota"}

\* What model.generate_content(...).text does: returns a text or raises.
Outcomes ==
  {[raised |-> FALSE, text |-> r, error |-> ""] : r \in Replies}
    \cup {[raised |-> TRUE, text |-> <<>>, error |-> e] : e \in Errors}

ErrorMessage(e) == <<"Could not get response from Gemini. Error: " \o e>>

\* The exception swallowed and the empty text returned.
get_gemini_response_swallow(prompt_text, outcome) == outcome.text

get_gemini_response(prompt_text, outcome) ==
  IF outcome.raised THEN ErrorMessage(outcome.error) ELSE outcome.text

\* One outbound completion call as the run records it.
Call(prompt_text, outcome) ==
  [prompt_text |-> prompt_text,
   raised      |-> outcome.raised,
   error       |-> outcome.error,
   returned    |-> get_gemini_response(prompt_text, outcome)]

-----------------------------------------------------------------------------
(* Prompt templates *)

SummaryHead ==
  <<"", "    **Role:** You are an AI assistant specializing in simplifying complex legal documents",
    "    **Task:** Analyze the following legal document and generate a concise summary.",
    "    **Document Text:**", "---">>

SummaryTail == <<"---", "**Generated Summary:**", "">>

RisksHead ==
  <<"", "    **Role:** AI risk analyst for contracts.",
    "    **Task:** Analyze the document and categorize key clauses into three levels",
    "    **Document Text:**", "---">>

RisksTail == <<"---", "**Categorized Analysis:**", "">>

QAHead ==
  <<"", "    **Role:** You are a helpful AI assistant for document analysis.",
    "    **Core Task:** Answer user questions based *exclusively* on the provided document text.",
    "    **Document Text:**", "---">>

QuestionLine(prompt) == "**User's Question:** '" \o prompt \o "'"

QATail(prompt) == <<"---", QuestionLine(prompt), "**Factual Answer:**", "">>

\* The lines of the turns' contents, one turn after the other.
RECURSIVE Contents(_)
Contents(turns) ==
  IF turns = <<>> THEN <<>> ELSE Head(turns).content \o Contents(Tail(turns))

summary_prompt(s) ==
  dedent(SummaryHead \o Interpolate(s.document_text) \o SummaryTail)

risks_prompt(s) ==
  dedent(RisksHead \o Interpolate(s.document_text) \o RisksTail)

\* The Q&A prompt with the transcript's earlier turns put before the document.
qa_prompt_with_history(s, prompt) ==
  dedent(QAHead
         \o Contents(SubSeq(s.messages, 1, Len(s.messages) - 1))
         \o Interpolate(s.document_text) \o QATail(prompt))

qa_prompt(s, prompt) ==
  dedent(QAHead \o Interpolate(s.document_text) \o QATail(prompt))

-----------------------------------------------------------------------------
(* Session state *)

\* st.session_state.k = v
Assign(s, k, v) ==
  [x \in (DOMAIN s) \cup {k} |-> IF x = k THEN v ELSE s[x]]

\* Session state after the first run's initialisation.
InitialSessionState ==
  [analysis_complete |-> FALSE, document_text |-> None, messages |-> <<>>]

Questions == {"q1", "q2"}

UserTurn(prompt) == [role |-> "user", content |-> <<prompt>>]

AssistantTurn(response) == [role |-> "assistant", content |-> response]

-----------------------------------------------------------------------------
(* The handlers of main() *)

\* The button branch when a file is uploaded, with the analysis marked
\* complete right after extraction, whatever was extracted.
AnalyzeDocument_flag_first(s, file, o1, o2) ==
  IF file.present
  THEN LET s1 == Assign(s, "document_text", extract_text_from_pdf(file))
           s0 == Assign(s1, "analysis_complete", TRUE)
       IN IF Truthy(s1.document_text)
          THEN LET c1 == Call(summary_prompt(s1), o1)
                   c2 == Call(risks_prompt(s1), o2)
                   s2 == Assign(s0, "summary", c1.returned)
                   s3 == Assign(s2, "risks", c2.returned)
               IN [session_state |-> Assign(s3, "messages", <<>>),
                   calls |-> <<c1, c2>>]
          ELSE [session_state |-> s0, calls |-> <<>>]
  ELSE [session_state |-> s, calls |-> <<>>]

\* The button branch with the chat reset done before the text is looked at.
AnalyzeDocument_reset_first(s, file, o1, o2) ==
  IF file.present
  THEN LET s0 == Assign(s, "messages", <<>>)
           s1 == Assign(s0, "document_text", extract_text_from_pdf(file))
       IN IF Truthy(s1.document_text)
          THEN LET c1 == Call(summary_prompt(s1), o1)
                   c2 == Call(risks_prompt(s1), o2)
                   s2 == Assign(s1, "summary", c1.returned)
                   s3 == Assign(s2, "risks", c2.returned)
               IN [session_state |-> Assign(s3, "analysis_complete", TRUE),
                   calls |-> <<c1, c2>>]
          ELSE [session_state |-> s1, calls |-> <<>>]
  ELSE [session_state |-> s, calls |-> <<>>]

\* The button branch without the chat reset.
AnalyzeDocument_keep_chat(s, file, o1, o2) ==
  IF file.present
  THEN LET s1 == Assign(s, "document_text", extract_text_from_pdf(file))
       IN IF Truthy(s1.document_text)
          THEN LET c1 == Call(summary_prompt(s1), o1)
                   c2 == Call(risks_prompt(s1), o2)
                   s2 == Assign(s1, "summary", c1.returned)
                   s3 == Assign(s2, "risks", c2.returned)
               IN [session_state |-> Assign(s3, "analysis_complete", TRUE),
                   calls |-> <<c1, c2>>]
          ELSE [session_state |-> s1, calls |-> <<>>]
  ELSE [session_state |-> s, calls |-> <<>>]

\* The button branch with the risks prompt built before the new text is stored.
AnalyzeDocument_stale_risks(s, file, o1, o2) ==
  IF file.present
  THEN LET s1 == Assign(s, "document_text", extract_text_from_pdf(file))
       IN IF Truthy(s1.document_text)
          THEN LET c1 == Call(summary_prompt(s1), o1)
                   c2 == Call(risks_prompt(s), o2)
                   s2 == Assign(s1, "summary", c1.returned)
                   s3 == Assign(s2, "risks", c2.returned)
                   s4 == Assign(s3, "analysis_complete", TRUE)
               IN [session_state |-> Assign(s4, "messages", <<>>),
                   calls |-> <<c1, c2>>]
          ELSE [session_state |-> s1, calls |-> <<>>]
  ELSE [session_state |-> s, calls |-> <<>>]

\* if st.button("Analyze Document"): ... with uploaded_file = file, and o1, o2
\* the outcomes of the two completion calls should they be made.
AnalyzeDocument(s, file, o1, o2) ==
  IF file.present
  THEN LET s1 == Assign(s, "document_text", extract_text_from_pdf(file))
       IN IF Truthy(s1.document_text)
          THEN LET c1 == Call(summary_prompt(s1), o1)
                   c2 == Call(risks_prompt(s1), o2)
                   s2 == Assign(s1, "summary", c1.returned)
                   s3 == Assign(s2, "risks", c2.returned)
                   s4 == Assign(s3, "analysis_complete", TRUE)
               IN [session_state |-> Assign(s4, "messages", <<>>),
                   calls |-> <<c1, c2>>]
          ELSE [session_state |-> s1, calls |-> <<>>]
  ELSE [session_state |-> s, calls |-> <<>>]

\* The session fields the main content display reads.
Reads(s) ==
  IF s.analysis_complete
  THEN {"analysis_complete", "summary", "risks", "messages"}
  ELSE {"analysis_complete"}

\* The chat turns the transcript loop renders.
Rendered(s) == IF s.analysis_complete THEN s.messages ELSE <<>>

\* The chat branch with the new turns put in front of the transcript.
ChatInput_prepend(s, prompt, o) ==
  LET c == Call(qa_prompt(s, prompt), o)
      turns == <<UserTurn(prompt), AssistantTurn(c.returned)>>
  IN [session_state |-> Assign(s, "messages", turns \o s.messages),
      calls |-> <<c>>,
      rendered |-> s.messages \o turns]

\* The chat branch with a failed completion call made a second time.
ChatInput_retry(s, prompt, o) ==
  LET s1 == Assign(s, "messages", Append(s.messages, UserTurn(prompt)))
      c == Call(qa_prompt(s1, prompt), o)
      s2 == Assign(s1, "messages", Append(s1.messages, AssistantTurn(c.returned)))
  IN [session_state |-> s2,
      calls |-> IF o.raised THEN <<c, c>> ELSE <<c>>,
      rendered |-> s.messages \o <<UserTurn(prompt), AssistantTurn(c.returned)>>]

\* if prompt := st.chat_input(...): ... with o the outcome of the completion call.
ChatInput(s, prompt, o) ==
  LET s1 == Assign(s, "messages", Append(s.messages, UserTurn(prompt)))
      c == Call(qa_prompt(s1, prompt), o)
      s2 == Assign(s1, "messages", Append(s1.messages, AssistantTurn(c.returned)))
  IN [session_state |-> s2,
      calls |-> <<c>>,
      rendered |-> s.messages \o <<UserTurn(prompt), AssistantTurn(c.returned)>>]

-----------------------------------------------------------------------------
(* Runs of the script *)

NoQuestion == ""

Init ==
  /\ session_state = InitialSessionState
  /\ uploaded_file = NoFile
  /\ run = [kind |-> "rerun", prompt |-> NoQuestion, calls |-> <<>>,
            reads |-> Reads(InitialSessionState), rendered |-> <<>>]
  /\ summary_source = None

\* The user puts a file into the uploader or removes it: a run with neither
\* the button nor a chat question.
Upload(file) ==
  /\ file # uploaded_file
  /\ uploaded_file' = file
  /\ run' = [kind |-> "rerun", prompt |-> NoQuestion, calls |-> <<>>,
             reads |-> Reads(session_state), rendered |-> Rendered(session_state)]
  /\ UNCHANGED <<session_state, summary_source>>

\* A click on 'Analyze Document'.
ClickAnalyze(o1, o2) ==
  LET r == AnalyzeDocument(session_state, uploaded_file, o1, o2)
  IN /\ session_state' = r.session_state
     /\ run' = [kind |-> "analyze", prompt |-> NoQuestion, calls |-> r.calls,
                reads |-> Reads(r.session_state),
                rendered |-> Rendered(r.session_state)]
     /\ summary_source' = IF r.calls # <<>> THEN r.session_state.document_text
                          ELSE summary_source
     /\ UNCHANGED uploaded_file

\* A question submitted in the chat input, which exists only in the results view.
SubmitQuestion(prompt, o) ==
  /\ session_state.analysis_complete
  /\ Len(session_state.messages) < 2 * MaxChats
  /\ LET r == ChatInput(session_state, prompt, o)
     IN /\ session_state' = r.session_state
        /\ run' = [kind |-> "chat", prompt |-> prompt, calls |-> r.calls,
                   reads |-> Reads(session_state), rendered |-> r.rendered]
  /\ UNCHANGED <<uploaded_file, summary_source>>

Next ==
  \/ \E file \in Files \cup {NoFile} : Upload(file)
  \/ \E o1 \in Outcomes, o2 \in Outcomes : ClickAnalyze(o1, o2)
  \/ \E prompt \in Questions, o \in Outcomes : SubmitQuestion(prompt, o)

Spec == Init /\ [][Next]_vars

-----------------------------------------------------------------------------
(* Vocabulary of the properties *)

Range(seq) == {seq[i] : i \in DOMAIN seq}

\* a occurs in b as a subsequence, in order.
RECURSIVE IsSubseq(_, _)
IsSubseq(a, b) ==
  IF a = <<>> THEN TRUE
  ELSE IF b = <<>> THEN FALSE
  ELSE IF Head(a) = Head(b) THEN IsSubseq(Tail(a), Tail(b))
  ELSE IsSubseq(a, Tail(b))

IsPrefix(a, b) == Len(a) <= Len(b) /\ SubSeq(b, 1, Len(a)) = a

\* The lines a prompt holds after its first headLen and before its last tailLen.
DocumentBlock(p, headLen, tailLen) == SubSeq(p, headLen + 1, Len(p) - tailLen)

\* The latest run was an Analyze click that completed an analysis.
Completed ==
  /\ run.kind = "analyze"
  /\ uploaded_file.present
  /\ Truthy(session_state.document_text)

\* The latest run was an Analyze click that did not complete an analysis.
NotCompleted == run.kind = "analyze" /\ ~Completed

\* The latest run answered a chat question.
Chatted == run.kind = "chat"

\* The transcript as it was before the latest chat question.
EarlierTurns ==
  SubSeq(session_state.messages, 1, Len(session_state.messages) - 2)

-----------------------------------------------------------------------------
(* C1 *)

\* C1 as stated: the prompt of every chat question contains, in order, all
\* earlier turns of the transcript.
C1_PromptReplaysTranscript ==
  Chatted =>
    \A i \in DOMAIN run.calls :
      IsSubseq(Contents(EarlierTurns), run.calls[i].prompt_text)

\* C1 amended: the prompt of a chat question is the Q&A template around the
\* session's document text and the new question, and holds nothing of the
\* earlier turns of the transcript.
C1_PromptHoldsDocumentAndQuestionOnly ==
  Chatted =>
    /\ Len(run.calls) = 1
    /\ LET p == run.calls[1].prompt_text
           d == dedent(Interpolate(session_state.document_text))
       IN /\ Len(p) = Len(QAHead) + Len(d) + Len(QATail(run.prompt))
          /\ DocumentBlock(p, Len(QAHead), Len(QATail(run.prompt))) = d
          /\ QuestionLine(run.prompt) \in Range(p)
          /\ Range(Contents(EarlierTurns)) \cap Range(p) = {}

C1_Witness ==
  /\ Chatted
  /\ Len(EarlierTurns) = 2
  /\ ~run.calls[1].raised

-----------------------------------------------------------------------------
(* C2 *)

\* C2 as stated: whenever a chat question is sent, the document text in the
\* Q&A prompt is the non-empty extracted text from which the displayed summary
\* and risks were generated.
C2_ChatUsesAnalyzedDocument ==
  Chatted =>
    /\ Truthy(session_state.document_text)
    /\ session_state.document_text = summary_source
    /\ \A i \in DOMAIN run.calls :
         DocumentBlock(run.calls[i].prompt_text, Len(QAHead),
                       Len(QATail(run.prompt)))
           = dedent(Interpolate(summary_source))

-----------------------------------------------------------------------------
(* C3 *)

\* C3 as stated: every Analyze click and every chat question causes exactly
\* one completion call.
C3_OneCallPerInteraction ==
  run.kind \in {"analyze", "chat"} => Len(run.calls) = 1

\* C3 amended: a chat question causes exactly one completion call, an Analyze
\* click that completes an analysis exactly two, and an Analyze click that
\* does not complete one none.
C3_CallsPerInteraction ==
  /\ Chatted => Len(run.calls) = 1
  /\ Completed => Len(run.calls) = 2
  /\ NotCompleted => Len(run.calls) = 0

C3_Witness ==
  /\ Chatted
  /\ run.calls[1].raised
  /\ Len(session_state.messages) = 2

-----------------------------------------------------------------------------
(* C4 *)

-----------------------------------------------------------------------------
(* C5 *)

\* C5: a completion call that raises yields the error-message string, and the
\* run goes on as with a model reply: an Analyze click stores it as summary or
\* risks and sets analysis_complete, a chat question appends it as the
\* assistant turn.
C5_RaisedCallHandledLikeReply ==
  /\ \A i \in DOMAIN run.calls :
       run.calls[i].raised =>
         run.calls[i].returned = ErrorMessage(run.calls[i].error)
  /\ Completed =>
       /\ Len(run.calls) = 2
       /\ session_state.analysis_complete
       /\ session_state.summary = run.calls[1].returned
       /\ session_state.risks = run.calls[2].returned
       /\ session_state.messages = <<>>
  /\ Chatted =>
       /\ Len(run.calls) = 1
       /\ session_state.messages
            = EarlierTurns \o <<UserTurn(run.prompt),
                                AssistantTurn(run.calls[1].returned)>>

C5_Witness ==
  /\ Completed
  /\ run.calls[1].raised
  /\ run.calls[2].raised
  /\ session_state.summary = ErrorMessage("quota")

-----------------------------------------------------------------------------
(* C6 *)

\* C6: a run that does not complete an analysis leaves every existing turn of
\* the transcript in place; a chat question adds its two turns at the end, and
\* the turns are rendered in the order of the transcript.
C6_TranscriptGrowsAtEnd ==
  [][ ~Completed' =>
        /\ IsPrefix(session_state.messages, session_state'.messages)
        /\ Chatted' =>
             /\ Len(session_state'.messages) = Len(session_state.messages) + 2
             /\ session_state'.messages[Len(session_state.messages) + 1].role = "user"
             /\ session_state'.messages[Len(session_state.messages) + 2].role = "assistant"
             /\ run'.rendered = session_state'.messages ]_vars

C6_Witness ==
  /\ Chatted
  /\ Len(session_state.messages) = 4
  /\ session_state.messages[1].content = <<"q1">>
  /\ session_state.messages[3].content = <<"q2">>
  /\ run.rendered = session_state.messages

-----------------------------------------------------------------------------
(* C7 *)

\* C7: right after an Analyze click that completes an analysis the transcript
\* is empty.
C7_CompletedAnalysisEmptiesChat ==
  Completed => session_state.messages = <<>> /\ run.rendered = <<>>

C7_Witness ==
  /\ Completed
  /\ session_state.messages = <<>>
  /\ session_state.document_text = Str(<<"a">>)
  /\ summary_source = Str(<<"a">>)

-----------------------------------------------------------------------------
(* C8 *)

\* C8: an Analyze click that does not complete an analysis makes no completion
\* call and leaves summary, risks, analysis_complete and the transcript as
\* they were.
C8_FailedAnalyzeFrame ==
  [][ NotCompleted' =>
        /\ run'.calls = <<>>
        /\ session_state'.analysis_complete = session_state.analysis_complete
        /\ session_state'.messages = session_state.messages
        /\ DOMAIN session_state' = DOMAIN session_state
        /\ \A k \in {"summary", "risks"} \cap DOMAIN session_state :
             session_state'[k] = session_state[k] ]_vars

C8_Witness ==
  /\ NotCompleted
  /\ uploaded_file = ImagePdf
  /\ session_state.analysis_complete
  /\ Len(session_state.messages) = 2

-----------------------------------------------------------------------------
(* C9 *)

\* C9: analysis_complete implies that summary and risks are stored, so the
\* results view reads no unset field; and analysis_complete becomes true only
\* in an Analyze run whose two completion calls returned what is stored.
C9_CompleteImpliesResultsStored ==
  /\ [](/\ session_state.analysis_complete =>
             {"summary", "risks"} \subseteq DOMAIN session_state
        /\ run.reads \subseteq DOMAIN session_state)
  /\ [][ (~session_state.analysis_complete /\ session_state'.analysis_complete) =>
           /\ run'.kind = "analyze"
           /\ Len(run'.calls) = 2
           /\ {"summary", "risks"} \subseteq DOMAIN session_state'
           /\ session_state'.summary = run'.calls[1].returned
           /\ session_state'.risks = run'.calls[2].returned ]_vars

C9_Witness ==
  /\ session_state.analysis_complete
  /\ "summary" \in run.reads
  /\ run.kind = "analyze"
  /\ ~uploaded_file.present

====
